---- MODULE Spec2Model ----
(***************************************************************************)
(* VisionForge: a browser front-end that generates images through the      *)
(* Gemini API.  The module models                                          *)
(*   - services/geminiService.ts: enhancePrompt and generateImage, as the  *)
(*     steps an async call takes (up to its await, and after it);          *)
(*   - App.tsx (the later, complete variant of the component) with the     *)
(*     ControlPanel's generate button: handleGenerate invocations, the     *)
(*     settings, the history.                                              *)
(* SpecSvc runs one service call at a time over every answer of the        *)
(* transport; Spec runs the component; SpecStore runs it from its first    *)
(* render over what localStorage may hold.                                 *)
(* JavaScript strings are TLA+ strings; String.prototype.includes is       *)
(* computed character by character.                                        *)
(***************************************************************************)
EXTENDS Integers, Sequences, FiniteSets, TLC

VARIABLES
    apiKey,        \* process.env.API_KEY ("" when not configured)
    gen,           \* the generateImage call of the service specification
    enh,           \* the enhancePrompt call of the service specification
    net,           \* requests handed to the transport and not answered yet, in order
    aistudio,      \* window.aistudio is defined
    keySelected,   \* the host's answer to hasSelectedApiKey
    hasApiKey,     \* ControlPanel's state hasApiKey
    settings,      \* App's state settings
    history,       \* App's state history, newest first
    isGenerating,  \* App's state isGenerating
    error,         \* App's state error
    calls,         \* the invocations of handleGenerate that have not finished
    started,       \* invocations of handleGenerate so far
    storage,       \* localStorage: the item under STORAGE_KEY
    phase,         \* the component's life: "first" render, "rerender", "ready"
    lastOp         \* the last operation on the history (store specification)

svcVars == <<apiKey, gen, enh, net>>
appVars == <<aistudio, keySelected, hasApiKey, settings, history, isGenerating, error,
             calls, started, storage, phase, lastOp>>
vars == <<apiKey, gen, enh, net, aistudio, keySelected, hasApiKey, settings, history,
          isGenerating, error, calls, started, storage, phase, lastOp>>

----------------------------------------------------------------------------
(* Bounds of the model *)

\* longest list of content parts in a response candidate
MaxParts == 2
\* longest list of grounding chunks in a response candidate
MaxChunks == 2
\* invocations of handleGenerate that may be unfinished at the same time
MaxCalls == 2
\* invocations of handleGenerate in one run
MaxGenerations == 2

----------------------------------------------------------------------------
(* JavaScript values *)

\* an optional string field that is not set
Undefined == "<undefined>"

\* the null of a string | null state
Null == "<null>"

\* JavaScript truthiness of an optional string
Truthy(s) == s # Undefined /\ s # ""

\* String.prototype.includes
Includes(s, t) ==
    \E i \in 1..(Len(s) - Len(t) + 1) : SubSeq(s, i, i + Len(t) - 1) = t

IsSpace(c) == c \in {" ", "\t", "\n"}

RECURSIVE TrimStart(_)
TrimStart(s) ==
    IF s # "" /\ IsSpace(SubSeq(s, 1, 1)) THEN TrimStart(SubSeq(s, 2, Len(s))) ELSE s

RECURSIVE TrimEnd(_)
TrimEnd(s) ==
    IF s # "" /\ IsSpace(SubSeq(s, Len(s), Len(s)))
    THEN TrimEnd(SubSeq(s, 1, Len(s) - 1)) ELSE s

\* variant: nothing is trimmed
Trim_Nothing(s) == s

\* String.prototype.trim
Trim(s) == TrimEnd(TrimStart(s))

\* String.prototype.startsWith
StartsWith(s, t) == Len(s) >= Len(t) /\ SubSeq(s, 1, Len(t)) = t

\* position of the first occurrence of the character c in s from position i
\* on, 0 when there is none
RECURSIVE IndexFrom(_, _, _)
IndexFrom(s, c, i) ==
    IF i > Len(s) THEN 0
    ELSE IF SubSeq(s, i, i) = c THEN i
    ELSE IndexFrom(s, c, i + 1)

IndexOf(s, c) == IndexFrom(s, c, 1)

\* String.prototype.split on a character: the pieces between its occurrences
RECURSIVE Split(_, _)
Split(s, c) ==
    LET i == IndexOf(s, c) IN
    IF i = 0 THEN <<s>>
    ELSE <<SubSeq(s, 1, i - 1)>> \o Split(SubSeq(s, i + 1, Len(s)), c)

\* array[n] of JavaScript, counting from 0: undefined past the end
At(array, n) == IF n + 1 <= Len(array) THEN array[n + 1] ELSE Undefined

\* a list without the first occurrence of x
RECURSIVE RemoveOne(_, _)
RemoveOne(seq, x) ==
    IF seq = <<>> THEN <<>>
    ELSE IF Head(seq) = x THEN Tail(seq)
    ELSE <<Head(seq)>> \o RemoveOne(Tail(seq), x)

\* new Error(message): no status, no nested error
NewError(message) == [message |-> message, status |-> 0, code |-> 0]

Throw(err) == [kind |-> "throw", error |-> err]
Return(value) == [kind |-> "return", value |-> value]

----------------------------------------------------------------------------
(* types.ts *)

ProModel == "gemini-3-pro-image-preview"
FlashModel == "gemini-2.5-flash-image"

\* App.tsx lines 353-358
InitialSettings ==
    [prompt |-> "", aspectRatio |-> "1:1", model |-> FlashModel, imageSize |-> "1K",
     referenceImage |-> Undefined, mimeType |-> Undefined]

Idle == [pc |-> "idle"]

----------------------------------------------------------------------------
(* geminiService.ts: enhancePrompt *)

EnhanceModel == "gemini-3-flash-preview"

\* the instruction sent to the text model (the template's fixed text shortened)
enhanceContents(prompt) == "Expand ... Original: \"" \o prompt \o "\""

\* lines 9-18: up to the await.  The key check is outside the try block.
enhanceStart(key, prompt) ==
    IF key = ""
    THEN [pc |-> "done", sent |-> FALSE, prompt |-> prompt,
          result |-> Throw(NewError("API_KEY_ERROR"))]
    ELSE [pc |-> "awaiting", sent |-> TRUE, prompt |-> prompt,
          request |-> [model |-> EnhanceModel, contents |-> enhanceContents(prompt)]]

\* lines 19-23: after the await.  outcome is the transport's answer.
enhanceSettle(prompt, outcome) ==
    IF outcome.kind = "reject"
    THEN Return(prompt)
    ELSE IF Truthy(outcome.text) THEN Return(outcome.text) ELSE Return(prompt)

----------------------------------------------------------------------------
(* geminiService.ts: generateImage, the request *)

\* variant: the size is sent for every model
buildConfig_AlwaysSize(st) ==
    IF st.model = ProModel
    THEN [aspectRatio |-> st.aspectRatio, imageSize |-> st.imageSize,
          tools |-> <<"googleSearch">>]
    ELSE [aspectRatio |-> st.aspectRatio, imageSize |-> st.imageSize,
          tools |-> <<>>]

\* lines 39-49
buildConfig(st) ==
    IF st.model = ProModel
    THEN [aspectRatio |-> st.aspectRatio, imageSize |-> st.imageSize,
          tools |-> <<"googleSearch">>]
    ELSE [aspectRatio |-> st.aspectRatio, imageSize |-> Undefined,
          tools |-> <<>>]

TextPart(t) == [inlineData |-> FALSE, mimeType |-> Undefined, data |-> Undefined, text |-> t]
InlinePart(m, d) == [inlineData |-> TRUE, mimeType |-> m, data |-> d, text |-> Undefined]

\* variant: only the reference image is tested, not its type
buildParts_ImageOnly(st) ==
    IF Truthy(st.referenceImage)
    THEN <<InlinePart(st.mimeType, st.referenceImage), TextPart(st.prompt)>>
    ELSE <<TextPart(st.prompt)>>

\* lines 51-61
buildParts(st) ==
    IF Truthy(st.referenceImage) /\ Truthy(st.mimeType)
    THEN <<InlinePart(st.mimeType, st.referenceImage), TextPart(st.prompt)>>
    ELSE <<TextPart(st.prompt)>>

\* lines 64-68
buildRequest(st) ==
    [model |-> st.model, parts |-> buildParts(st), config |-> buildConfig(st)]

----------------------------------------------------------------------------
(* geminiService.ts: generateImage, the response *)

NoCandidatesMessage ==
    "The model did not return any results. This might be due to safety filters."
NoImageMessage ==
    "No image data found. The prompt or reference image may have been filtered."

\* what reading candidate.finishReason of an undefined candidate throws
TypeErrorMessage == "Cannot read properties of undefined (reading 'finishReason')"

\* line 82
abnormalStopMessage(finishReason) ==
    "Generation stopped early: " \o finishReason \o ". Try a different prompt."

\* line 107
modelResponseMessage(text) == "Model Response: " \o text

\* line 89
dataUri(mimeType, data) == "data:" \o mimeType \o ";base64," \o data

\* variant: the first binary part is kept
RECURSIVE walkParts_FirstWins(_, _, _)
walkParts_FirstWins(parts, imageUrl, text) ==
    IF parts = <<>>
    THEN [imageUrl |-> imageUrl, text |-> text]
    ELSE LET part == Head(parts) IN
         IF part.inlineData
         THEN walkParts_FirstWins(Tail(parts),
                  IF imageUrl = "" THEN dataUri(part.mimeType, part.data) ELSE imageUrl,
                  text)
         ELSE IF Truthy(part.text)
         THEN walkParts_FirstWins(Tail(parts), imageUrl, text \o part.text)
         ELSE walkParts_FirstWins(Tail(parts), imageUrl, text)

\* variant: text parts are not collected
RECURSIVE walkParts_DropText(_, _, _)
walkParts_DropText(parts, imageUrl, text) ==
    IF parts = <<>>
    THEN [imageUrl |-> imageUrl, text |-> text]
    ELSE LET part == Head(parts) IN
         IF part.inlineData
         THEN walkParts_DropText(Tail(parts), dataUri(part.mimeType, part.data), text)
         ELSE walkParts_DropText(Tail(parts), imageUrl, text)

\* lines 87-93: the loop over the parts, from the values imageUrl and text have
RECURSIVE walkParts(_, _, _)
walkParts(parts, imageUrl, text) ==
    IF parts = <<>>
    THEN [imageUrl |-> imageUrl, text |-> text]
    ELSE LET part == Head(parts) IN
         IF part.inlineData
         THEN walkParts(Tail(parts), dataUri(part.mimeType, part.data), text)
         ELSE IF Truthy(part.text)
         THEN walkParts(Tail(parts), imageUrl, text \o part.text)
         ELSE walkParts(Tail(parts), imageUrl, text)

\* lines 97-104: filter(chunk => chunk.web).map(chunk => ({title, uri}))
\* variant: every chunk is mapped, with or without a web citation
RECURSIVE webSources_NoFilter(_)
webSources_NoFilter(chunks) ==
    IF chunks = <<>>
    THEN <<>>
    ELSE LET chunk == Head(chunks) IN
         <<[title |-> chunk.title, uri |-> chunk.uri]>> \o webSources_NoFilter(Tail(chunks))

RECURSIVE webSources(_)
webSources(chunks) ==
    IF chunks = <<>>
    THEN <<>>
    ELSE LET chunk == Head(chunks) IN
         IF chunk.web
         THEN <<[title |-> chunk.title, uri |-> chunk.uri]>> \o webSources(Tail(chunks))
         ELSE webSources(Tail(chunks))

\* variant: only a missing list is tested, not an empty one
noCandidates_OnlyAbsent(response) == ~response.hasCandidates

\* lines 74-76
noCandidates(response) ==
    ~response.hasCandidates \/ Len(response.candidates) = 0

\* variant: the finish reason is not looked at
abnormalStop_Ignored(candidate) == FALSE

\* lines 81-83
abnormalStop(candidate) ==
    Truthy(candidate.finishReason) /\ candidate.finishReason # "STOP"

\* variant: the parts are read first, and the finish reason only when they
\* hold no image
tryBody_PartsFirst(response) ==
    IF noCandidates(response)
    THEN Throw(NewError(NoCandidatesMessage))
    ELSE IF ~response.hasCandidates \/ Len(response.candidates) = 0
    THEN Throw(NewError(TypeErrorMessage))
    ELSE LET candidate == response.candidates[1]
             walked == IF candidate.hasParts
                       THEN walkParts(candidate.parts, "", "")
                       ELSE [imageUrl |-> "", text |-> ""]
             sources == IF candidate.hasGroundingChunks
                        THEN webSources(candidate.groundingChunks)
                        ELSE <<>>
         IN IF walked.imageUrl # ""
            THEN Return([imageUrl |-> walked.imageUrl, text |-> walked.text,
                         sources |-> sources])
            ELSE IF abnormalStop(candidate)
            THEN Throw(NewError(abnormalStopMessage(candidate.finishReason)))
            ELSE IF walked.text # ""
            THEN Throw(NewError(modelResponseMessage(walked.text)))
            ELSE Throw(NewError(NoImageMessage))

\* lines 70-111: the body of the try block once the response has arrived
tryBody(response) ==
    IF noCandidates(response)
    THEN Throw(NewError(NoCandidatesMessage))
    ELSE IF ~response.hasCandidates \/ Len(response.candidates) = 0
    THEN \* line 81 reads a property of a candidate that is not there
         Throw(NewError(TypeErrorMessage))
    ELSE LET candidate == response.candidates[1] IN
         IF abnormalStop(candidate)
         THEN Throw(NewError(abnormalStopMessage(candidate.finishReason)))
         ELSE LET walked == IF candidate.hasParts
                            THEN walkParts(candidate.parts, "", "")
                            ELSE [imageUrl |-> "", text |-> ""]
                  sources == IF candidate.hasGroundingChunks
                             THEN webSources(candidate.groundingChunks)
                             ELSE <<>>
              IN IF walked.imageUrl = ""
                 THEN IF walked.text # ""
                      THEN Throw(NewError(modelResponseMessage(walked.text)))
                      ELSE Throw(NewError(NoImageMessage))
                 ELSE Return([imageUrl |-> walked.imageUrl, text |-> walked.text,
                              sources |-> sources])

\* lines 119-122: the phrases that ask for a new key selection
KeyPhrases ==
    {"Requested entity was not found", "permission", "API_KEY", "An API Key must be set"}

\* lines 123-124
KeyStatuses == {404, 403}

\* line 114
errorMessageOf(err) == IF Truthy(err.message) THEN err.message ELSE ""

\* line 115: error.status || (error.error && error.error.code)
errorStatusOf(err) == IF err.status # 0 THEN err.status ELSE err.code

\* variant: the status is not looked at
needsKeySelection_MessageOnly(err) ==
    \E phrase \in KeyPhrases : Includes(errorMessageOf(err), phrase)

\* lines 118-125
needsKeySelection(err) ==
    \/ \E phrase \in KeyPhrases : Includes(errorMessageOf(err), phrase)
    \/ errorStatusOf(err) \in KeyStatuses

\* variant: other errors are wrapped in a new error
catchBlock_Wrap(err) ==
    IF needsKeySelection(err)
    THEN NewError("API_KEY_ERROR")
    ELSE NewError("Image generation failed: " \o errorMessageOf(err))

\* lines 112-130: what the catch block throws for the error it caught
catchBlock(err) ==
    IF needsKeySelection(err)
    THEN NewError("API_KEY_ERROR")
    ELSE err

\* variant: the request is sent whether or not a key is configured
generateStart_NoKeyCheck(key, st) ==
    [pc |-> "awaiting", sent |-> TRUE, settings |-> st,
     request |-> buildRequest(st)]

\* lines 30-68: up to the await
generateStart(key, st) ==
    IF key = ""
    THEN [pc |-> "done", sent |-> FALSE, settings |-> st,
          result |-> Throw(NewError("API_KEY_ERROR"))]
    ELSE [pc |-> "awaiting", sent |-> TRUE, settings |-> st,
          request |-> buildRequest(st)]

\* lines 63-130: after the await.  outcome is the transport's answer: the promise
\* resolved with a response, or rejected with an error.
generateSettle(outcome) ==
    IF outcome.kind = "reject"
    THEN Throw(catchBlock(outcome.error))
    ELSE LET r == tryBody(outcome.response) IN
         IF r.kind = "throw" THEN Throw(catchBlock(r.error)) ELSE r

----------------------------------------------------------------------------
(* What the transport may answer *)

SeqsUpTo(S, n) == UNION {[1..k -> S] : k \in 0..n}

\* text parts of a response: empty, a caption, and explanations that mention
\* permissions or the key
ResponseTexts ==
    {"", "A cat.", "I do not have permission to draw this.", "Check API_KEY."}

ResponseParts ==
    {TextPart(t) : t \in ResponseTexts}
        \cup {InlinePart("image/png", "AAAA"), InlinePart("image/jpeg", "BBBB")}

\* FinishReason values of the API, and a candidate that reports none
FinishReasons == {Undefined, "STOP", "SAFETY", "MAX_TOKENS", "IMAGE_SAFETY"}

GroundingChunks ==
    {[web |-> TRUE, title |-> "Cats", uri |-> "https://cats.example"],
     [web |-> TRUE, title |-> Undefined, uri |-> "https://dogs.example"],
     [web |-> FALSE, title |-> Undefined, uri |-> Undefined]}

\* a list that may be missing: has is FALSE for the missing one
OptionalLists(S, n) ==
    {[has |-> FALSE, list |-> <<>>]} \cup {[has |-> TRUE, list |-> l] : l \in SeqsUpTo(S, n)}

Candidates ==
    {[finishReason |-> f, hasParts |-> p.has, parts |-> p.list,
      hasGroundingChunks |-> g.has, groundingChunks |-> g.list] :
        f \in FinishReasons,
        p \in OptionalLists(ResponseParts, MaxParts),
        g \in OptionalLists(GroundingChunks, MaxChunks)}

\* a candidate without content has no parts to list, one without grounding
\* metadata no chunks
WellFormed(c) ==
    /\ (~c.hasParts => c.parts = <<>>)
    /\ (~c.hasGroundingChunks => c.groundingChunks = <<>>)

\* a second candidate, which the code never reads
OtherCandidate ==
    [finishReason |-> "STOP", hasParts |-> TRUE,
     parts |-> <<InlinePart("image/png", "CCCC")>>,
     hasGroundingChunks |-> FALSE, groundingChunks |-> <<>>]

Responses ==
    {[hasCandidates |-> FALSE, candidates |-> <<>>],
     [hasCandidates |-> TRUE, candidates |-> <<>>]}
        \cup {[hasCandidates |-> TRUE, candidates |-> <<c>>] :
                c \in {x \in Candidates : WellFormed(x)}}
        \cup {[hasCandidates |-> TRUE, candidates |-> <<c, OtherCandidate>>] :
                c \in {x \in Candidates : WellFormed(x) /\ x.groundingChunks = <<>>}}

\* errors the SDK call may reject with: a message (or none), an HTTP status (or
\* none, 0), a nested error code (or none, 0)
TransportMessages ==
    {Undefined, "", "fetch failed", "Requested entity was not found.",
     "The caller does not have permission", "API_KEY_INVALID",
     "An API Key must be set when running in a browser", "Permission denied"}

TransportErrors ==
    {[message |-> m, status |-> s, code |-> c] :
        m \in TransportMessages, s \in {0, 403, 404, 429, 500}, c \in {0, 404, 500}}

GenerateOutcomes ==
    {[kind |-> "resolve", response |-> r] : r \in Responses}
        \cup {[kind |-> "reject", error |-> e] : e \in TransportErrors}

EnhanceOutcomes ==
    {[kind |-> "resolve", text |-> t] : t \in {Undefined, "", "A cat, golden hour."}}
        \cup {[kind |-> "reject", error |-> e] :
                e \in {x \in TransportErrors : x.code = 0}}

----------------------------------------------------------------------------
(* App.tsx: the history in localStorage *)

\* reading a property of an object made by JSON.parse: undefined when the
\* object has no such key
Get(object, key) == IF key \in DOMAIN object THEN object[key] ELSE Undefined

\* JSON.stringify leaves out the keys whose value is undefined (an object
\* whose values are strings)
DropUndefined(object) ==
    [key \in {k \in DOMAIN object : object[k] # Undefined} |-> object[key]]

\* the item under STORAGE_KEY: none, or a text, which is JSON or is not
NoItem == [item |-> FALSE]
RawText(raw) == [item |-> TRUE, json |-> FALSE, raw |-> raw]
JsonText(value) == [item |-> TRUE, json |-> TRUE, value |-> value]

\* JSON.stringify of an entry (types.ts, GeneratedImage)
jsonOfEntry(img) ==
    [id |-> img.id, url |-> img.url, prompt |-> img.prompt,
     timestamp |-> img.timestamp,
     sources |-> [k \in 1..Len(img.sources) |-> DropUndefined(img.sources[k])],
     config |-> DropUndefined([aspectRatio |-> img.config.aspectRatio,
                               model |-> img.config.model,
                               size |-> img.config.size])
                    @@ [hasReferenceImage |-> img.config.hasReferenceImage]]

\* line 381: JSON.stringify(history)
stringify(list) ==
    JsonText([type |-> "array",
              items |-> [k \in 1..Len(list) |-> jsonOfEntry(list[k])]])

\* an entry of a parsed list, as the component reads it
entryOf(object) ==
    [id |-> Get(object, "id"), url |-> Get(object, "url"),
     prompt |-> Get(object, "prompt"), timestamp |-> Get(object, "timestamp"),
     sources |-> [k \in 1..Len(object.sources) |->
                     [title |-> Get(object.sources[k], "title"),
                      uri |-> Get(object.sources[k], "uri")]],
     config |-> [aspectRatio |-> Get(object.config, "aspectRatio"),
                 model |-> Get(object.config, "model"),
                 size |-> Get(object.config, "size"),
                 hasReferenceImage |-> Get(object.config, "hasReferenceImage")]]

\* variant: the parsed list is taken newest last
loadEffect_Reversed(saved) ==
    IF ~saved.item THEN [set |-> FALSE]
    ELSE IF ~saved.json THEN [set |-> FALSE]
    ELSE IF saved.value.type = "array"
    THEN [set |-> TRUE,
          value |-> [k \in 1..Len(saved.value.items) |->
                        entryOf(saved.value.items[Len(saved.value.items) + 1 - k])]]
    ELSE [set |-> FALSE]

\* lines 366-376: the load effect, for what getItem returned: the call of
\* setHistory it makes, if it makes one
loadEffect(saved) ==
    IF ~saved.item
    THEN [set |-> FALSE]                    \* getItem returned null
    ELSE IF ~saved.json
    THEN [set |-> FALSE]                    \* the empty text, or JSON.parse threw
    ELSE IF saved.value.type = "array"
    THEN [set |-> TRUE,
          value |-> [k \in 1..Len(saved.value.items) |-> entryOf(saved.value.items[k])]]
    ELSE [set |-> FALSE]

\* variant: an empty history is not written (lines 51-55 of the earlier
\* variant of the component)
persistEffect_NonEmptyOnly(list, stored) ==
    IF Len(list) > 0 THEN stringify(list) ELSE stored

\* lines 379-383: the persist effect, run after a render in which history has
\* changed; the item it leaves
persistEffect(list, stored) ==
    IF Len(list) >= 0 THEN stringify(list) ELSE stored

----------------------------------------------------------------------------
(* The service specification: one call of enhancePrompt or generateImage at a *)
(* time, with every input and every answer of the transport.                  *)

Prompts == {"", "a cat", "permission slip"}

SvcSettings ==
    {[prompt |-> "a cat", aspectRatio |-> "1:1", model |-> FlashModel,
      imageSize |-> "1K", referenceImage |-> Undefined, mimeType |-> Undefined],
     [prompt |-> "a cat", aspectRatio |-> "16:9", model |-> ProModel,
      imageSize |-> "2K", referenceImage |-> "AAAA", mimeType |-> "image/png"],
     [prompt |-> "", aspectRatio |-> "1:1", model |-> FlashModel,
      imageSize |-> "4K", referenceImage |-> "AAAA", mimeType |-> Undefined],
     [prompt |-> "a cat", aspectRatio |-> "3:4", model |-> ProModel,
      imageSize |-> "1K", referenceImage |-> Undefined, mimeType |-> "image/png"],
     [prompt |-> "a cat", aspectRatio |-> "4:3", model |-> FlashModel,
      imageSize |-> "2K", referenceImage |-> "BBBB", mimeType |-> "image/jpeg"],
     [prompt |-> "a cat", aspectRatio |-> "9:16", model |-> ProModel,
      imageSize |-> "4K", referenceImage |-> "AAAA", mimeType |-> ""]}

\* the component is mounted and left alone
AppAtRest ==
    /\ aistudio = FALSE
    /\ keySelected = FALSE
    /\ hasApiKey = TRUE
    /\ settings = InitialSettings
    /\ history = <<>>
    /\ isGenerating = FALSE
    /\ error = Null
    /\ calls = [i \in 1..MaxCalls |-> Idle]
    /\ started = 0
    /\ storage = stringify(<<>>)
    /\ phase = "ready"
    /\ lastOp = "none"

SvcInit ==
    /\ apiKey \in {"", "AIza-key"}
    /\ gen = Idle
    /\ enh = Idle
    /\ net = <<>>
    /\ AppAtRest

SvcEnhance(prompt) ==
    /\ enh.pc = "idle" /\ gen.pc = "idle"
    /\ enh' = enhanceStart(apiKey, prompt)
    /\ net' = IF enh'.sent THEN Append(net, enh'.request) ELSE net
    /\ UNCHANGED <<apiKey, gen>>
    /\ UNCHANGED appVars

SvcEnhanceSettle(outcome) ==
    /\ enh.pc = "awaiting"
    /\ enh' = [pc |-> "done", sent |-> TRUE, prompt |-> enh.prompt,
               outcome |-> outcome, result |-> enhanceSettle(enh.prompt, outcome)]
    /\ net' = RemoveOne(net, enh.request)
    /\ UNCHANGED <<apiKey, gen>>
    /\ UNCHANGED appVars

SvcGenerate(st) ==
    /\ gen.pc = "idle" /\ enh.pc = "idle"
    /\ gen' = generateStart(apiKey, st)
    /\ net' = IF gen'.sent THEN Append(net, gen'.request) ELSE net
    /\ UNCHANGED <<apiKey, enh>>
    /\ UNCHANGED appVars

SvcGenerateSettle(outcome) ==
    /\ gen.pc = "awaiting"
    /\ gen' = [pc |-> "done", sent |-> TRUE,
               outcome |-> outcome, result |-> generateSettle(outcome)]
    /\ net' = RemoveOne(net, gen.request)
    /\ UNCHANGED <<apiKey, enh>>
    /\ UNCHANGED appVars

\* the caller has its answer; the next call starts afresh
SvcNext ==
    /\ \/ gen.pc = "done"
       \/ enh.pc = "done"
    /\ gen' = Idle
    /\ enh' = Idle
    /\ UNCHANGED <<apiKey, net>>
    /\ UNCHANGED appVars

SvcStep ==
    \/ \E prompt \in Prompts : SvcEnhance(prompt)
    \/ enh.pc = "awaiting" /\ \E outcome \in EnhanceOutcomes : SvcEnhanceSettle(outcome)
    \/ \E st \in SvcSettings : SvcGenerate(st)
    \/ gen.pc = "awaiting" /\ \E outcome \in GenerateOutcomes : SvcGenerateSettle(outcome)
    \/ SvcNext

SpecSvc == SvcInit /\ [][SvcStep]_vars

----------------------------------------------------------------------------
(* App.tsx and the ControlPanel: the component *)

\* App.tsx lines 427, 430, 432
SessionInvalidMessage ==
    "API Session invalid. Please select a valid key from a paid project."
SafetyMessage ==
    "Content policy violation: The prompt or result was filtered for safety."
UnexpectedMessage == "An unexpected error occurred during synthesis."

\* what Math.random().toString(36).substring(7) may give
Ids == {"x7k2p", "m4q9z"}

\* what the user may type into the prompt textarea
TypedPrompts == {"", " ", "a cat"}

\* what the transport answers to the component's requests
AppOutcomes ==
    {[kind |-> "resolve",
      response |-> [hasCandidates |-> TRUE, candidates |-> <<OtherCandidate>>]],
     [kind |-> "resolve", response |-> [hasCandidates |-> TRUE, candidates |-> <<>>]],
     [kind |-> "reject", error |-> [message |-> "fetch failed", status |-> 403, code |-> 0]],
     [kind |-> "reject", error |-> [message |-> "fetch failed", status |-> 0, code |-> 0]],
     [kind |-> "reject", error |-> [message |-> Undefined, status |-> 0, code |-> 0]]}

\* how the host's key-selection dialog ends
DialogOutcomes == {"selected", "dismissed", "rejected"}

DialogError == NewError("The key selection dialog was closed.")

Unfinished == {i \in 1..MaxCalls : calls[i].pc # "idle"}

\* requests of generateImage that have been sent and not answered
Outstanding == {i \in 1..MaxCalls : calls[i].pc = "awaiting"}

FreeSlots == {i \in 1..MaxCalls : calls[i].pc = "idle"}

\* the slot the next invocation takes
FreeSlot == CHOOSE i \in FreeSlots : \A j \in FreeSlots : i <= j

\* lines 408-420: the entry made of what generateImage returned
newImage(st, value, id, timestamp) ==
    [id |-> id, url |-> value.imageUrl, prompt |-> st.prompt,
     timestamp |-> timestamp, sources |-> value.sources,
     config |-> [aspectRatio |-> st.aspectRatio, model |-> st.model,
                 size |-> IF st.model = ProModel THEN st.imageSize ELSE Undefined,
                 hasReferenceImage |-> Truthy(st.referenceImage)]]

\* variant: the entry is made of the settings as they are when the answer comes
succeeded_CurrentSettings(i, value, id) ==
    /\ history' = <<newImage(settings, value, id, started)>> \o history
    /\ storage' = persistEffect(history', storage)
    /\ isGenerating' = FALSE
    /\ calls' = [calls EXCEPT ![i] = Idle]
    /\ UNCHANGED error

\* variant: the list is made of the new entry alone
succeeded_Alone(i, value, id) ==
    /\ history' = <<newImage(calls[i].settings, value, id, started)>>
    /\ storage' = persistEffect(history', storage)
    /\ isGenerating' = FALSE
    /\ calls' = [calls EXCEPT ![i] = Idle]
    /\ UNCHANGED error

\* lines 408-422 and the finally block, for the value generateImage returned.
\* Date.now() is read as the number of invocations so far.
succeeded(i, value, id) ==
    /\ history' = <<newImage(calls[i].settings, value, id, started)>> \o history
    /\ storage' = persistEffect(history', storage)
    /\ isGenerating' = FALSE
    /\ calls' = [calls EXCEPT ![i] = Idle]
    /\ UNCHANGED error

\* variant: an exception thrown by the catch block leaves the handler
\* without the finally block
caught_NoFinally(i, c, err, error0, generating0) ==
    /\ IF err.message = "API_KEY_ERROR" /\ aistudio
       THEN /\ error' = SessionInvalidMessage
            /\ calls' = [calls EXCEPT ![i] = [c EXCEPT !.pc = "reselect"]]
            /\ isGenerating' = generating0
       ELSE /\ error' = IF err.message = Undefined
                        THEN error0
                        ELSE IF Includes(err.message, "safety") THEN SafetyMessage
                        ELSE IF err.message # "" THEN err.message
                        ELSE UnexpectedMessage
            /\ isGenerating' = IF err.message = Undefined THEN generating0 ELSE FALSE
            /\ calls' = [calls EXCEPT ![i] = Idle]
    /\ UNCHANGED <<history, storage>>

\* lines 423-436: the catch block and the finally block, for the error caught by
\* the invocation in slot i, whose record is c; error0 and generating0 are the
\* values the states error and isGenerating have when the block is entered.
caught(i, c, err, error0, generating0) ==
    /\ IF err.message = "API_KEY_ERROR" /\ aistudio
       THEN \* line 428 awaits the dialog; the finally block runs after it
            /\ error' = SessionInvalidMessage
            /\ calls' = [calls EXCEPT ![i] = [c EXCEPT !.pc = "reselect"]]
            /\ isGenerating' = generating0
       ELSE /\ error' = IF err.message = Undefined
                        THEN error0  \* line 429 throws a TypeError out of the handler
                        ELSE IF Includes(err.message, "safety") THEN SafetyMessage
                        ELSE IF err.message # "" THEN err.message
                        ELSE UnexpectedMessage
            /\ isGenerating' = FALSE
            /\ calls' = [calls EXCEPT ![i] = Idle]
    /\ UNCHANGED <<history, storage>>

\* line 406: generateImage(settings) up to its await.  Without a key its promise
\* is rejected at once and the catch block runs before any other event.
callGenerate(i, c, error0, generating0) ==
    LET g == generateStart(apiKey, c.settings) IN
    IF g.sent
    THEN /\ calls' = [calls EXCEPT ![i] = [c EXCEPT !.pc = "awaiting"]]
         /\ net' = Append(net, g.request)
         /\ error' = error0
         /\ isGenerating' = generating0
         /\ UNCHANGED <<history, storage>>
    ELSE /\ caught(i, c, g.result.error, error0, generating0)
         /\ UNCHANGED net

\* line 398: the key is asked for
asksForKey(st) == st.model = ProModel /\ aistudio

\* lines 390-406: handleGenerate up to its first await.  The closure holds the
\* settings of the render it was made in.
handleGenerate ==
    IF Trim(settings.prompt) = ""
    THEN UNCHANGED vars
    ELSE /\ FreeSlots # {}
         /\ started < MaxGenerations
         /\ started' = started + 1
         /\ LET i == FreeSlot
                c == [pc |-> "checkKey", settings |-> settings, hasKey |-> "unasked"]
            IN IF asksForKey(settings)
               THEN /\ calls' = [calls EXCEPT ![i] = c]
                    /\ isGenerating' = TRUE
                    /\ error' = Null
                    /\ UNCHANGED <<history, storage, net>>
               ELSE callGenerate(i, c, Null, TRUE)
         /\ UNCHANGED <<apiKey, gen, enh, aistudio, phase, keySelected, hasApiKey, settings>>

\* ControlPanel lines 381-383: the button is enabled
buttonEnabled == ~isGenerating /\ Trim(settings.prompt) # "" /\ hasApiKey

\* ControlPanel line 382: a click on the generate button
ClickGenerate ==
    /\ buttonEnabled
    /\ handleGenerate

\* App.tsx line 550: Enter, without Shift, in the prompt textarea
PressEnter == handleGenerate

\* variant: the dialog is never opened
needsKeyPrompt_Never(hasKey) == FALSE

\* line 400
needsKeyPrompt(hasKey) == ~hasKey

\* lines 399-406: hasSelectedApiKey has answered
KeyChecked(i) ==
    /\ calls[i].pc = "checkKey"
    /\ IF needsKeyPrompt(keySelected)
       THEN /\ calls' = [calls EXCEPT ![i] = [@ EXCEPT !.pc = "selectKey", !.hasKey = "no"]]
            /\ UNCHANGED <<history, storage, isGenerating, error, net>>
       ELSE callGenerate(i, [calls[i] EXCEPT !.hasKey = IF keySelected THEN "yes" ELSE "no"],
                         error, isGenerating)
    /\ UNCHANGED <<apiKey, gen, enh, aistudio, phase, keySelected, hasApiKey, settings, started>>

\* lines 401-406: the dialog opened by line 401 has closed
DialogClosed(i, outcome) ==
    /\ calls[i].pc = "selectKey"
    /\ keySelected' = (keySelected \/ outcome = "selected")
    /\ IF outcome = "rejected"
       THEN caught(i, calls[i], DialogError, error, isGenerating) /\ UNCHANGED net
       ELSE callGenerate(i, calls[i], error, isGenerating)
    /\ UNCHANGED <<apiKey, gen, enh, aistudio, phase, hasApiKey, settings, started>>

\* lines 406-436: the transport has answered the request of slot i
Answered(i, outcome, id) ==
    /\ calls[i].pc = "awaiting"
    /\ LET r == generateSettle(outcome) IN
       IF r.kind = "return"
       THEN succeeded(i, r.value, id)
       ELSE caught(i, calls[i], r.error, error, isGenerating)
    /\ net' = RemoveOne(net, buildRequest(calls[i].settings))
    /\ UNCHANGED <<apiKey, gen, enh, aistudio, phase, keySelected, hasApiKey, settings, started>>

\* lines 428-436: the dialog opened by the catch block has closed, however it
\* ended; the finally block runs
ReselectClosed(i, outcome) ==
    /\ calls[i].pc = "reselect"
    /\ keySelected' = (keySelected \/ outcome = "selected")
    /\ isGenerating' = FALSE
    /\ calls' = [calls EXCEPT ![i] = Idle]
    /\ UNCHANGED <<apiKey, gen, enh, net, aistudio, phase, hasApiKey, settings, history, storage, error,
                   started>>

\* line 549 (and line 558, which empties the prompt): the text has changed
TypePrompt(prompt) ==
    /\ prompt # settings.prompt
    /\ settings' = [settings EXCEPT !.prompt = prompt]
    /\ UNCHANGED <<apiKey, gen, enh, net, aistudio, phase, keySelected, hasApiKey, history, storage,
                   isGenerating, error, calls, started>>

\* ControlPanel: a click on the button of the other model
ChooseModel(model) ==
    /\ model # settings.model
    /\ settings' = [settings EXCEPT !.model = model]
    /\ UNCHANGED <<apiKey, gen, enh, net, aistudio, phase, keySelected, hasApiKey, history, storage,
                   isGenerating, error, calls, started>>

\* lines 439-441, from the card of an entry with this id
deleteImage(id) ==
    /\ \E n \in 1..Len(history) : history[n].id = id
    /\ history' = SelectSeq(history, LAMBDA img : img.id # id)
    /\ storage' = persistEffect(history', storage)
    /\ UNCHANGED <<apiKey, gen, enh, net, aistudio, phase, keySelected, hasApiKey, settings,
                   isGenerating, error, calls, started>>

\* line 590
ClearAll ==
    /\ history' = <<>>
    /\ storage' = persistEffect(history', storage)
    /\ UNCHANGED <<apiKey, gen, enh, net, aistudio, phase, keySelected, hasApiKey, settings,
                   isGenerating, error, calls, started>>

\* ControlPanel lines 196-206: checkKey, at mount and every 2 seconds
checkKey ==
    /\ aistudio
    /\ hasApiKey' = keySelected
    /\ UNCHANGED <<apiKey, gen, enh, net, aistudio, phase, keySelected, settings, history, storage,
                   isGenerating, error, calls, started>>

\* ControlPanel lines 208-214
handleSelectKey(outcome) ==
    /\ aistudio
    /\ keySelected' = (keySelected \/ outcome = "selected")
    /\ hasApiKey' = IF outcome = "rejected" THEN hasApiKey ELSE TRUE
    /\ UNCHANGED <<apiKey, gen, enh, net, aistudio, phase, settings, history, storage, isGenerating,
                   error, calls, started>>

\* ControlPanel line 347: a click on an aspect ratio
chooseAspectRatio(ratio) ==
    /\ ratio # settings.aspectRatio
    /\ settings' = [settings EXCEPT !.aspectRatio = ratio]
    /\ UNCHANGED <<apiKey, gen, enh, net, aistudio, phase, keySelected, hasApiKey, history,
                   storage, isGenerating, error, calls, started>>

\* variant: the type is all of the header after its colon
referenceOf_WholeHeader(imageUrl) ==
    LET parts == Split(imageUrl, ",")
        header == At(parts, 0)
    IN [referenceImage |-> At(parts, 1),
        mimeType |-> SubSeq(header, IndexOf(header, ":") + 1, Len(header))]

\* App.tsx lines 450-453: the payload and the type read out of a data URI
referenceOf(imageUrl) ==
    LET parts == Split(imageUrl, ",")
        header == At(parts, 0)
    IN [referenceImage |-> At(parts, 1),
        mimeType |-> At(Split(At(Split(header, ":"), 1), ";"), 0)]

\* App.tsx lines 448-461, from the card of an entry with this url
setAsReference(imageUrl) ==
    /\ UNCHANGED <<apiKey, gen, enh, net, aistudio, phase, keySelected, hasApiKey, history,
                   storage, isGenerating, error, calls, started>>
    /\ IF StartsWith(imageUrl, "data:")
       THEN settings' = [settings EXCEPT
                            !.referenceImage = referenceOf(imageUrl).referenceImage,
                            !.mimeType = referenceOf(imageUrl).mimeType]
       ELSE UNCHANGED settings

\* ControlPanel lines 216-230: a file has been chosen and the FileReader has
\* read it; file.result is the data URL the reader made of it
handleImageUpload(file) ==
    /\ settings' = [settings EXCEPT
                        !.referenceImage = At(Split(file.result, ","), 1),
                        !.mimeType = file.type]
    /\ UNCHANGED <<apiKey, gen, enh, net, aistudio, phase, keySelected, hasApiKey, history,
                   storage, isGenerating, error, calls, started>>

\* ControlPanel lines 232-239
clearImage ==
    /\ settings' = [settings EXCEPT !.referenceImage = Undefined, !.mimeType = Undefined]
    /\ UNCHANGED <<apiKey, gen, enh, net, aistudio, phase, keySelected, hasApiKey, history,
                   storage, isGenerating, error, calls, started>>

Init ==
    /\ apiKey \in {"", "AIza-key"}
    /\ gen = Idle
    /\ enh = Idle
    /\ net = <<>>
    /\ aistudio \in BOOLEAN
    /\ keySelected \in BOOLEAN
    /\ (~aistudio => ~keySelected)
    /\ hasApiKey = TRUE
    /\ settings = InitialSettings
    /\ history = <<>>
    /\ isGenerating = FALSE
    /\ error = Null
    /\ calls = [i \in 1..MaxCalls |-> Idle]
    /\ started = 0
    /\ storage = stringify(<<>>)
    /\ phase = "ready"
    /\ lastOp = "none"

Next ==
    \/ ClickGenerate /\ UNCHANGED lastOp
    \/ PressEnter /\ UNCHANGED lastOp
    \/ \E i \in 1..MaxCalls : KeyChecked(i) /\ UNCHANGED lastOp
    \/ \E i \in 1..MaxCalls, outcome \in DialogOutcomes :
           DialogClosed(i, outcome) /\ UNCHANGED lastOp
    \/ \E i \in 1..MaxCalls, outcome \in AppOutcomes, id \in Ids :
           Answered(i, outcome, id) /\ UNCHANGED lastOp
    \/ \E i \in 1..MaxCalls, outcome \in DialogOutcomes :
           ReselectClosed(i, outcome) /\ UNCHANGED lastOp
    \/ \E prompt \in TypedPrompts : TypePrompt(prompt) /\ UNCHANGED lastOp
    \/ \E model \in {FlashModel, ProModel} : ChooseModel(model) /\ UNCHANGED lastOp
    \/ \E id \in Ids : deleteImage(id) /\ UNCHANGED lastOp
    \/ ClearAll /\ UNCHANGED lastOp
    \/ checkKey /\ UNCHANGED lastOp
    \/ \E outcome \in DialogOutcomes : handleSelectKey(outcome) /\ UNCHANGED lastOp

Spec == Init /\ [][Next]_vars

----------------------------------------------------------------------------
(* The component with the promises it awaits settling: the host answers      *)
(* hasSelectedApiKey, its dialog closes (or fails), the transport answers a  *)
(* request.  What the user does is left free.                                *)

LiveIds == {"x7k2p"}

\* the promise awaited by invocation i settles and the handler runs on
Settles(i) ==
    /\ \/ KeyChecked(i)
       \/ \E outcome \in DialogOutcomes : DialogClosed(i, outcome)
       \/ \E outcome \in AppOutcomes, id \in LiveIds : Answered(i, outcome, id)
       \/ \E outcome \in DialogOutcomes : ReselectClosed(i, outcome)
    /\ UNCHANGED lastOp

LiveNext ==
    \/ TypePrompt("a cat") /\ UNCHANGED lastOp
    \/ ChooseModel(ProModel) /\ UNCHANGED lastOp
    \/ ClickGenerate /\ UNCHANGED lastOp
    \/ PressEnter /\ UNCHANGED lastOp
    \/ \E i \in 1..MaxCalls : Settles(i)

SpecLive ==
    /\ Init
    /\ [][LiveNext]_vars
    /\ \A i \in 1..MaxCalls : WF_vars(Settles(i))

----------------------------------------------------------------------------
(* The store specification: the component from its first render, over what   *)
(* localStorage may hold, with reloads of the page.  The host has no key     *)
(* dialog and the build has a key; Clear All is clicked when there are       *)
(* entries.  lastOp records the last operation on the history.               *)

\* variant: the persist effect runs before the load effect reads the item
MountEffects_PersistFirst ==
    /\ phase = "first"
    /\ storage' = persistEffect(history, storage)
    /\ LET loaded == loadEffect(storage') IN
       /\ history' = IF loaded.set THEN loaded.value ELSE history
       /\ phase' = IF loaded.set THEN "rerender" ELSE "ready"
    /\ UNCHANGED <<apiKey, gen, enh, net, aistudio, keySelected, hasApiKey, settings,
                   isGenerating, error, calls, started>>

\* lines 365-383, after the first render: the load effect, then the persist
\* effect of that render, whose history is the initial one
MountEffects ==
    /\ phase = "first"
    /\ LET loaded == loadEffect(storage) IN
       /\ history' = IF loaded.set THEN loaded.value ELSE history
       /\ phase' = IF loaded.set THEN "rerender" ELSE "ready"
    /\ storage' = persistEffect(history, storage)
    /\ UNCHANGED <<apiKey, gen, enh, net, aistudio, keySelected, hasApiKey, settings,
                   isGenerating, error, calls, started>>

\* lines 379-383, after the render with the loaded history
MountRerender ==
    /\ phase = "rerender"
    /\ storage' = persistEffect(history, storage)
    /\ phase' = "ready"
    /\ UNCHANGED <<apiKey, gen, enh, net, aistudio, keySelected, hasApiKey, settings,
                   history, isGenerating, error, calls, started>>

\* the page is loaded again: lines 353-362 give every state its initial
\* value, the calls under way are gone with the page, the item stays
Reload ==
    /\ phase = "ready"
    /\ phase' = "first"
    /\ settings' = InitialSettings
    /\ history' = <<>>
    /\ isGenerating' = FALSE
    /\ error' = Null
    /\ hasApiKey' = TRUE
    /\ calls' = [i \in 1..MaxCalls |-> Idle]
    /\ net' = <<>>
    /\ UNCHANGED <<apiKey, gen, enh, aistudio, keySelected, started, storage>>

\* entries written by an earlier session
StoredPro ==
    newImage([prompt |-> "a dog", aspectRatio |-> "16:9", model |-> ProModel,
              imageSize |-> "2K", referenceImage |-> "AAAA", mimeType |-> "image/png"],
             [imageUrl |-> dataUri("image/png", "DDDD"), text |-> "",
              sources |-> <<[title |-> Undefined, uri |-> "https://dogs.example"],
                            [title |-> "Cats", uri |-> "https://cats.example"]>>],
             "k3v9a", 0)

StoredFlash ==
    newImage([prompt |-> "a cat", aspectRatio |-> "1:1", model |-> FlashModel,
              imageSize |-> "1K", referenceImage |-> Undefined, mimeType |-> Undefined],
             [imageUrl |-> dataUri("image/jpeg", "EEEE"), text |-> "A cat.",
              sources |-> <<>>],
             "x7k2p", 0)

\* what the item may be when the page is opened: nothing, an empty text, a
\* text that is not JSON, JSON that is not a list, a list of entries
StoredContents ==
    {NoItem, RawText(""), RawText("{\"id\":"),
     JsonText([type |-> "object"]), JsonText([type |-> "null"]),
     stringify(<<>>), stringify(<<StoredFlash>>), stringify(<<StoredPro, StoredFlash>>)}

StoreIds == Ids \cup {"k3v9a"}

StoreOutcomes ==
    {[kind |-> "resolve",
      response |-> [hasCandidates |-> TRUE, candidates |-> <<OtherCandidate>>]],
     [kind |-> "reject", error |-> [message |-> "fetch failed", status |-> 0, code |-> 0]]}

StoreInit ==
    /\ apiKey = "AIza-key"
    /\ gen = Idle
    /\ enh = Idle
    /\ net = <<>>
    /\ aistudio = FALSE
    /\ keySelected = FALSE
    /\ hasApiKey = TRUE
    /\ settings = InitialSettings
    /\ history = <<>>
    /\ isGenerating = FALSE
    /\ error = Null
    /\ calls = [i \in 1..MaxCalls |-> Idle]
    /\ started = 0
    /\ storage \in StoredContents
    /\ phase = "first"
    /\ lastOp = "none"

StoreNext ==
    \/ MountEffects /\ lastOp' = "load"
    \/ MountRerender /\ UNCHANGED lastOp
    \/ phase = "ready" /\ TypePrompt("a cat") /\ UNCHANGED lastOp
    \/ phase = "ready" /\ ClickGenerate /\ UNCHANGED lastOp
    \/ /\ phase = "ready"
       /\ \E i \in 1..MaxCalls, outcome \in StoreOutcomes, id \in Ids :
              /\ Answered(i, outcome, id)
              /\ lastOp' = IF outcome.kind = "resolve" THEN "append" ELSE lastOp
    \/ phase = "ready" /\ (\E id \in StoreIds : deleteImage(id)) /\ lastOp' = "delete"
    \/ phase = "ready" /\ history # <<>> /\ ClearAll /\ lastOp' = "clear"
    \/ Reload /\ lastOp' = "reload"

SpecStore == StoreInit /\ [][StoreNext]_vars

----------------------------------------------------------------------------
(* The reference specification: the component with the reference image of  *)
(* the settings: uploads, "use as reference" on a card, edits of the       *)
(* settings while a request is under way.  The item in localStorage holds  *)
(* one entry whose url is a link; the host has no key dialog and the build *)
(* has a key; the user goes to the high-quality model and to the 16:9      *)
(* ratio and stays there.                                                  *)

\* an entry whose url is not a data URI
StoredLink ==
    [StoredFlash EXCEPT !.id = "k3v9a", !.url = "https://img.example/cat.png"]

\* files the user may choose: a PNG image; a file whose type the browser
\* does not know (File.type is then the empty string); a PNG file of no
\* bytes, of which the reader makes "data:" in some browsers and a data URL
\* with an empty payload in others
Files ==
    {[type |-> "image/png", result |-> "data:image/png;base64,AAAA"],
     [type |-> "", result |-> "data:application/octet-stream;base64,XXXX"],
     [type |-> "image/png", result |-> "data:"],
     [type |-> "image/png", result |-> "data:image/png;base64,"]}

RefOutcomes ==
    {[kind |-> "resolve",
      response |-> [hasCandidates |-> TRUE, candidates |-> <<OtherCandidate>>]]}

RefInit ==
    /\ apiKey = "AIza-key"
    /\ gen = Idle
    /\ enh = Idle
    /\ net = <<>>
    /\ aistudio = FALSE
    /\ keySelected = FALSE
    /\ hasApiKey = TRUE
    /\ settings = InitialSettings
    /\ history = <<>>
    /\ isGenerating = FALSE
    /\ error = Null
    /\ calls = [i \in 1..MaxCalls |-> Idle]
    /\ started = 0
    /\ storage = stringify(<<StoredLink>>)
    /\ phase = "first"
    /\ lastOp = "none"

RefNext ==
    \/ MountEffects /\ lastOp' = "load"
    \/ MountRerender /\ UNCHANGED lastOp
    \/ phase = "ready" /\ TypePrompt("a cat") /\ UNCHANGED lastOp
    \/ phase = "ready" /\ ChooseModel(ProModel) /\ UNCHANGED lastOp
    \/ phase = "ready" /\ chooseAspectRatio("16:9") /\ UNCHANGED lastOp
    \/ phase = "ready" /\ (\E file \in Files : handleImageUpload(file))
           /\ lastOp' = "upload"
    \/ phase = "ready" /\ clearImage /\ lastOp' = "clear image"
    \/ phase = "ready" /\ (\E k \in 1..Len(history) : setAsReference(history[k].url))
           /\ lastOp' = "reference"
    \/ phase = "ready" /\ ClickGenerate /\ UNCHANGED lastOp
    \/ /\ phase = "ready"
       /\ \E i \in 1..MaxCalls, outcome \in RefOutcomes, id \in {"x7k2p"} :
              Answered(i, outcome, id)
       /\ lastOp' = "append"

SpecRef == RefInit /\ [][RefNext]_vars

----------------------------------------------------------------------------
(* Claims about the service *)

\* the call of generateImage has settled after its request was sent
GenSettled == gen.pc = "done" /\ gen.sent

\* the response of a settled call whose request resolved
GenResolved == GenSettled /\ gen.outcome.kind = "resolve"

\* the response has a first candidate
HasCandidate(response) == response.hasCandidates /\ Len(response.candidates) > 0

\* the first candidate finished normally: it reports STOP, or no reason
FinishedNormally(candidate) == candidate.finishReason \in {Undefined, "STOP"}

BinaryAt(parts) == {i \in 1..Len(parts) : parts[i].inlineData}

\* the text parts of a list of parts, concatenated in order
RECURSIVE PartsText(_)
PartsText(parts) ==
    IF parts = <<>> THEN ""
    ELSE (IF ~Head(parts).inlineData /\ Truthy(Head(parts).text)
          THEN Head(parts).text ELSE "") \o PartsText(Tail(parts))

\* the failure the request or the validation of the response raised, before
\* the catch block saw it
HasFailure ==
    /\ GenSettled
    /\ \/ gen.outcome.kind = "reject"
       \/ tryBody(gen.outcome.response).kind = "throw"

Failure ==
    IF gen.outcome.kind = "reject"
    THEN gen.outcome.error
    ELSE tryBody(gen.outcome.response).error

\* an authorization / not-found indicator: one of the four phrases in the
\* message, or a status code of 403 or 404 (the error's status, or the nested
\* error's code when it has no status)
Indicated(err) ==
    \/ /\ Truthy(err.message)
       /\ \/ Includes(err.message, "Requested entity was not found")
          \/ Includes(err.message, "permission")
          \/ Includes(err.message, "API_KEY")
          \/ Includes(err.message, "An API Key must be set")
    \/ err.status \in {403, 404}
    \/ err.status = 0 /\ err.code \in {403, 404}

\* C1 (as claimed): enhancePrompt never raises: a finished call has returned,
\* the prompt itself when the key is missing, the request was rejected or the
\* response text is empty, and the model's text otherwise.
C1_EnhanceNeverRaises ==
    enh.pc = "done" =>
        /\ enh.result.kind = "return"
        /\ IF ~enh.sent \/ enh.outcome.kind = "reject" \/ ~Truthy(enh.outcome.text)
           THEN enh.result.value = enh.prompt
           ELSE enh.result.value = enh.outcome.text

\* C2: a failure of the request or of the response validation that carries an
\* indicator reaches the caller as the error 'API_KEY_ERROR', whatever it was.
C2_IndicatedIsCredentialMissing ==
    (HasFailure /\ Indicated(Failure)) =>
        /\ gen.result.kind = "throw"
        /\ gen.result.error.message = "API_KEY_ERROR"

\* C2 witness: a failure of the response validation (text and no image) whose
\* message mentions permission came out as API_KEY_ERROR.
C2_Witness ==
    /\ GenResolved
    /\ HasCandidate(gen.outcome.response)
    /\ gen.outcome.response.candidates[1].parts =
           <<TextPart("I do not have permission to draw this.")>>
    /\ tryBody(gen.outcome.response).kind = "throw"
    /\ gen.result.kind = "throw"
    /\ gen.result.error.message = "API_KEY_ERROR"

\* C3 (as claimed): text and no binary part in a normally finished candidate
\* fails with a message that contains the text, for every text.
C3_NoImageCarriesText ==
    (/\ GenResolved
     /\ HasCandidate(gen.outcome.response)
     /\ FinishedNormally(gen.outcome.response.candidates[1])
     /\ BinaryAt(gen.outcome.response.candidates[1].parts) = {}
     /\ PartsText(gen.outcome.response.candidates[1].parts) # "") =>
        /\ gen.result.kind = "throw"
        /\ Includes(gen.result.error.message,
                    PartsText(gen.outcome.response.candidates[1].parts))

\* C3 (amended): text and no binary part in a normally finished candidate
\* fails; the message is 'Model Response: ' followed by the text, unless that
\* message carries an indicator, and then it is 'API_KEY_ERROR'.
C3_NoImageCarriesTextUnlessIndicated ==
    (/\ GenResolved
     /\ HasCandidate(gen.outcome.response)
     /\ FinishedNormally(gen.outcome.response.candidates[1])
     /\ BinaryAt(gen.outcome.response.candidates[1].parts) = {}
     /\ PartsText(gen.outcome.response.candidates[1].parts) # "") =>
        LET text == PartsText(gen.outcome.response.candidates[1].parts) IN
        /\ gen.result.kind = "throw"
        /\ IF Indicated(NewError("Model Response: " \o text))
           THEN gen.result.error.message = "API_KEY_ERROR"
           ELSE gen.result.error.message = "Model Response: " \o text

\* C3 witness: two text parts, no image: the message carries both texts.
C3_Witness ==
    /\ GenResolved
    /\ HasCandidate(gen.outcome.response)
    /\ gen.outcome.response.candidates[1].parts = <<TextPart("A cat."), TextPart("A cat.")>>
    /\ gen.result.kind = "throw"
    /\ gen.result.error.message = "Model Response: A cat.A cat."

\* C5: with no API key the call fails at once with 'API_KEY_ERROR'; it never
\* waits for the transport, which has no request of it.
C5_NoKeyNoRequest ==
    (apiKey = "" /\ gen.pc # "idle") =>
        /\ gen.pc = "done"
        /\ ~gen.sent
        /\ gen.result.kind = "throw"
        /\ gen.result.error.message = "API_KEY_ERROR"
        /\ net = <<>>

\* C5 witness: a call made without a key has finished.
C5_Witness == apiKey = "" /\ gen.pc = "done" /\ gen.result.kind = "throw"

\* C7: a first candidate with a finish reason other than STOP fails with the
\* AbnormalStop message, which contains the reason.
C7_AbnormalStop ==
    (/\ GenResolved
     /\ HasCandidate(gen.outcome.response)
     /\ ~FinishedNormally(gen.outcome.response.candidates[1])) =>
        LET reason == gen.outcome.response.candidates[1].finishReason IN
        /\ gen.result.kind = "throw"
        /\ gen.result.error.message =
               "Generation stopped early: " \o reason \o ". Try a different prompt."
        /\ Includes(gen.result.error.message, reason)

\* C7 witness: a candidate stopped for IMAGE_SAFETY although it carried an image.
C7_Witness ==
    /\ GenResolved
    /\ HasCandidate(gen.outcome.response)
    /\ gen.outcome.response.candidates[1].finishReason = "IMAGE_SAFETY"
    /\ BinaryAt(gen.outcome.response.candidates[1].parts) # {}
    /\ gen.result.kind = "throw"

\* C8: a response without candidates (absent, or an empty list) fails with the
\* NoCandidates message and returns no result.
C8_NoCandidates ==
    (GenResolved /\ ~HasCandidate(gen.outcome.response)) =>
        /\ gen.result.kind = "throw"
        /\ gen.result.error.message =
               "The model did not return any results. This might be due to safety filters."

\* C8 witness: the response had an empty list of candidates.
C8_Witness ==
    /\ GenResolved
    /\ gen.outcome.response.hasCandidates
    /\ gen.outcome.response.candidates = <<>>
    /\ gen.result.kind = "throw"

\* C9: a normally finished candidate with a binary part succeeds, and imageUrl
\* is the data URI of the last binary part.
C9_LastBinaryWins ==
    (/\ GenResolved
     /\ HasCandidate(gen.outcome.response)
     /\ FinishedNormally(gen.outcome.response.candidates[1])
     /\ BinaryAt(gen.outcome.response.candidates[1].parts) # {}) =>
        LET parts == gen.outcome.response.candidates[1].parts
            last == CHOOSE i \in BinaryAt(parts) : \A j \in BinaryAt(parts) : j <= i
        IN /\ gen.result.kind = "return"
           /\ gen.result.value.imageUrl =
                  "data:" \o parts[last].mimeType \o ";base64," \o parts[last].data

\* C9 witness: two different binary parts; the result is the second.
C9_Witness ==
    /\ GenResolved
    /\ HasCandidate(gen.outcome.response)
    /\ gen.outcome.response.candidates[1].parts =
           <<InlinePart("image/png", "AAAA"), InlinePart("image/jpeg", "BBBB")>>
    /\ gen.result.kind = "return"
    /\ gen.result.value.imageUrl = "data:image/jpeg;base64,BBBB"

\* C10: a failure that carries no indicator reaches the caller as it was
\* raised: the same message, status and nested code.
C10_OthersUnchanged ==
    (HasFailure /\ ~Indicated(Failure)) =>
        /\ gen.result.kind = "throw"
        /\ gen.result.error = Failure

\* C10 witness: a rejected request with status 500 came out as it was.
C10_Witness ==
    /\ HasFailure
    /\ gen.outcome.kind = "reject"
    /\ gen.outcome.error = [message |-> "fetch failed", status |-> 500, code |-> 0]
    /\ gen.result.error = gen.outcome.error

\* the request of the call that is waiting for its answer
GenAwaiting == gen.pc = "awaiting" /\ Len(net) = 1

Outgoing == net[1]

\* C11: the outgoing request carries an image size and the web-search tool
\* exactly when the selected model is the high-quality variant; the size is
\* then the one of the settings, and for the other model neither is sent
\* whatever size the settings hold.
C11_ProOnlyConfig ==
    GenAwaiting =>
        LET config == Outgoing.config
            pro == gen.settings.model = ProModel
        IN /\ (config.imageSize # Undefined) <=> pro
           /\ (\E k \in 1..Len(config.tools) : config.tools[k] = "googleSearch") <=> pro
           /\ pro => config.imageSize = gen.settings.imageSize
           /\ ~pro => config.tools = <<>>

\* C11 witness: the fast model with a 4K size in its settings; the request
\* names neither a size nor a tool.
C11_Witness ==
    /\ GenAwaiting
    /\ gen.settings.model = FlashModel
    /\ gen.settings.imageSize = "4K"
    /\ Outgoing.config.imageSize = Undefined
    /\ Outgoing.config.tools = <<>>

\* C12: the prompt text part is always in the request, as its last part; with
\* a reference image and its type both set there is exactly one binary part,
\* before the text part, and with either of them missing there is none.
C12_PartsOfRequest ==
    GenAwaiting =>
        LET parts == Outgoing.parts
            st == gen.settings
            binary == {k \in 1..Len(parts) : parts[k].inlineData}
        IN /\ Len(parts) >= 1
           /\ parts[Len(parts)] = TextPart(st.prompt)
           /\ Cardinality({k \in 1..Len(parts) : ~parts[k].inlineData}) = 1
           /\ IF Truthy(st.referenceImage) /\ Truthy(st.mimeType)
              THEN /\ binary = {1}
                   /\ Len(parts) = 2
                   /\ parts[1].data = st.referenceImage
                   /\ parts[1].mimeType = st.mimeType
              ELSE binary = {}

\* C12 witness: a request with a reference image: the binary part, then the
\* prompt.
C12_Witness ==
    /\ GenAwaiting
    /\ gen.settings.referenceImage = "BBBB"
    /\ Outgoing.parts = <<InlinePart("image/jpeg", "BBBB"), TextPart("a cat")>>

\* the sources the claim describes, computed from the chunks by position
citedSources(chunks) ==
    LET cited == SelectSeq(chunks, LAMBDA chunk : chunk.web)
    IN [k \in 1..Len(cited) |-> [title |-> cited[k].title, uri |-> cited[k].uri]]

\* C13: the sources of a successful result are the grounding chunks with a web
\* citation, each as (title, uri), in the order of the response; chunks
\* without one are left out, and without grounding metadata the list is empty.
C13_SourcesAreWebChunks ==
    (GenResolved /\ gen.result.kind = "return") =>
        LET candidate == gen.outcome.response.candidates[1]
        IN gen.result.value.sources =
               IF candidate.hasGroundingChunks
               THEN citedSources(candidate.groundingChunks)
               ELSE <<>>

\* C13 witness: two chunks with a web citation, the first without a title;
\* the sources are the two, in that order.
C13_Witness ==
    /\ GenResolved
    /\ gen.result.kind = "return"
    /\ Len(gen.outcome.response.candidates[1].groundingChunks) = 2
    /\ gen.result.value.sources =
           <<[title |-> Undefined, uri |-> "https://dogs.example"],
             [title |-> "Cats", uri |-> "https://cats.example"]>>

\* C23: the response is validated in a fixed order.  Without a candidate the
\* call fails with the NoCandidates message; otherwise an abnormal finish
\* reason fails it with the AbnormalStop message, whatever the parts hold,
\* an image included, and nothing is returned; only a candidate that finished
\* normally has its parts read, failing without a binary part and returning
\* a result with one.
C23_ValidationOrder ==
    GenResolved =>
        LET response == gen.outcome.response IN
        IF ~HasCandidate(response)
        THEN /\ gen.result.kind = "throw"
             /\ gen.result.error.message = NoCandidatesMessage
        ELSE LET candidate == response.candidates[1] IN
             IF ~FinishedNormally(candidate)
             THEN /\ gen.result.kind = "throw"
                  /\ gen.result.error.message =
                         abnormalStopMessage(candidate.finishReason)
             ELSE IF BinaryAt(candidate.parts) = {}
             THEN /\ gen.result.kind = "throw"
                  /\ gen.result.error.message # NoCandidatesMessage
             ELSE gen.result.kind = "return"

\* C23 witness: a candidate stopped for SAFETY whose parts are a caption and
\* an image: the call fails with the AbnormalStop message.
C23_Witness ==
    /\ GenResolved
    /\ HasCandidate(gen.outcome.response)
    /\ gen.outcome.response.candidates[1].finishReason = "SAFETY"
    /\ gen.outcome.response.candidates[1].parts =
           <<TextPart("A cat."), InlinePart("image/png", "AAAA")>>
    /\ gen.result.kind = "throw"
    /\ gen.result.error.message = abnormalStopMessage("SAFETY")

----------------------------------------------------------------------------
(* Claims about the component *)

\* C4 (as claimed): at most one generation request is outstanding at any time.
C4_OneRequestAtATime == Len(net) <= 1 /\ Cardinality(Outstanding) <= 1

Sends(i) ==
    /\ calls[i].pc # "awaiting"
    /\ calls'[i].pc = "awaiting"
    /\ net' = Append(net, buildRequest(calls'[i].settings))

Without(list, n) == SubSeq(list, 1, n - 1) \o SubSeq(list, n + 1, Len(list))

\* C14 (as claimed): deleting an entry by its id from a history of N entries
\* leaves N - 1 entries, none of them with that id, the others in the order
\* they had.
C14_DeleteRemovesOne ==
    [][\A id \in Ids :
          deleteImage(id) =>
              /\ Len(history') = Len(history) - 1
              /\ \A k \in 1..Len(history') : history'[k].id # id
              /\ \E n \in 1..Len(history) :
                     history[n].id = id /\ history' = Without(history, n)]_vars

\* C15 (as claimed): no two entries of the history have the same id.
C15_IdsDistinct ==
    \A m, n \in 1..Len(history) : m # n => history[m].id # history[n].id

\* the answers for which generateImage returns a value
SucceedingOutcomes == {outcome \in AppOutcomes : generateSettle(outcome).kind = "return"}

\* the step is the end of a generation that succeeded
GenerationSucceeds ==
    \E i \in Outstanding, outcome \in SucceedingOutcomes, id \in Ids :
        Answered(i, outcome, id)

\* list is sub with one element more, the others in place
OneMore(list, sub) ==
    \E n \in 1..Len(list) : Without(list, n) = sub

\* sub is list with some elements taken out, the others in their order
RECURSIVE Remains(_, _)
Remains(sub, list) ==
    IF sub = <<>> THEN TRUE
    ELSE IF list = <<>> THEN FALSE
    ELSE IF Head(sub) = Head(list) THEN Remains(Tail(sub), Tail(list))
    ELSE Remains(sub, Tail(list))

C19_PromptOrMessage ==
    [][\A i \in 1..MaxCalls, outcome \in AppOutcomes, id \in Ids :
          (Answered(i, outcome, id) /\ generateSettle(outcome).kind = "throw") =>
              IF generateSettle(outcome).error.message = "API_KEY_ERROR"
              THEN calls'[i].pc = "reselect"
              ELSE error' # Null /\ calls'[i].pc = "idle"]_vars

\* C24 (as claimed): while a generation request is outstanding isGenerating
\* is true.
C24_GeneratingWhileOutstanding ==
    Outstanding # {} => isGenerating

\* the answers for which generateImage throws
FailingOutcomes == AppOutcomes \ SucceedingOutcomes

\* C26 (as claimed): a generation that fails leaves the history as it was and
\* a non-empty error message set; and after a generation that succeeded, with
\* no other invocation under way, the error is null.
C26_FailureSetsError ==
    [][\A i \in Outstanding, id \in Ids :
          /\ \A outcome \in FailingOutcomes :
                 Answered(i, outcome, id) =>
                     /\ history' = history
                     /\ error' # Null
                     /\ error' # ""
          /\ \A outcome \in SucceedingOutcomes :
                 (Answered(i, outcome, id) /\ Unfinished' = {}) => error' = Null]_vars

\* C27: whatever happened to the history while a request was outstanding
\* (entries deleted, the history cleared, another generation completed), the
\* entry of a request that succeeds is put on top of the history as it is at
\* that moment: nothing deleted comes back, nothing added in between is lost.
\* (The answer of a request takes the request off the network.)
C27_NoLostUpdate ==
    [][(Len(net') < Len(net) /\ GenerationSucceeds) =>
          /\ Len(history') = Len(history) + 1
          /\ Tail(history') = history]_vars

\* C27 witness: two invocations were under way together and both succeeded;
\* the entry of the one answered first is below the entry of the other.
C27_Witness ==
    /\ Len(history) = 2
    /\ history[1].timestamp = 2
    /\ history[2].timestamp = 2
    /\ Unfinished = {}

\* a string of no characters or of white space only
Blank(s) == \A k \in 1..Len(s) : IsSpace(SubSeq(s, k, k))

\* C30: handleGenerate with an empty or white-space-only prompt does nothing:
\* no request is sent, isGenerating and the error keep their values, the
\* history (and its stored copy) is unchanged and no invocation is under way.
C30_BlankPromptNoOp ==
    [][(Blank(settings.prompt) /\ PressEnter) =>
          UNCHANGED <<net, isGenerating, error, history, storage, calls, started>>]_vars

\* C30 witness: the prompt is white space only while the message of an earlier
\* failure is displayed and nothing is under way; Enter is pressed in this
\* state and the message stays.
C30_Witness ==
    /\ settings.prompt = " "
    /\ error # Null
    /\ ~isGenerating
    /\ Unfinished = {}
    /\ ENABLED PressEnter

\* C25: an invocation of handleGenerate that is under way comes to its end
\* with isGenerating false, whichever way it ends: the entry added, the
\* failure reported, the dialog of the catch block failing, or the catch
\* block throwing on an error without a message.  So isGenerating never stays
\* true for ever.
C25_GeneratingEnds ==
    /\ \A i \in 1..MaxCalls :
           (calls[i].pc # "idle") ~> (calls[i].pc = "idle" /\ ~isGenerating)
    /\ isGenerating ~> ~isGenerating

\* C25 witness: the only invocation so far has ended in the catch block
\* throwing (no entry, no message), and isGenerating is false.
C25_Witness ==
    /\ started = 1
    /\ Unfinished = {}
    /\ history = <<>>
    /\ error = Null
    /\ ~isGenerating

----------------------------------------------------------------------------
(* Claims about the stored history *)

\* C16: once a change of the history has settled (the component is mounted
\* and its effects have run), the item under the storage key is the
\* serialization of the history in memory, also when the history is empty.
C16_StoredIsHistory ==
    phase = "ready" => storage = stringify(history)

\* C16 witness: the last entry has been deleted; the item is the empty list.
C16_Witness ==
    /\ phase = "ready"
    /\ lastOp = "delete"
    /\ history = <<>>
    /\ storage = JsonText([type |-> "array", items |-> <<>>])

\* the item is the text of a JSON list
HoldsList(stored) == stored.item /\ stored.json /\ stored.value.type = "array"

\* C17: at startup a stored list of entries is loaded in its order, each
\* entry with its fields (serializing the loaded entry gives the stored one
\* back); an item that is no JSON or no list, or no item, leaves the history
\* empty, and the component goes on.
C17_LoadAtStartup ==
    [][MountEffects =>
          /\ phase' # "first"
          /\ IF HoldsList(storage)
             THEN /\ Len(history') = Len(storage.value.items)
                  /\ \A k \in 1..Len(history') :
                         jsonOfEntry(history'[k]) = storage.value.items[k]
             ELSE history' = <<>>]_vars

\* C17 witness: the two stored entries are in the history, in their order.
C17_Witness ==
    /\ phase = "ready"
    /\ lastOp = "load"
    /\ history = <<StoredPro, StoredFlash>>

\* C28: a stored list survives the startup.  The first effects load it while
\* the persist effect of the first render writes the empty history; the
\* render that follows writes the loaded history, so that once the startup
\* has settled the history is the stored list and the item is that list
\* again, not the empty one written in between.
C28_StartupKeepsStored ==
    [][/\ (MountEffects /\ HoldsList(storage)) =>
              /\ phase' = "rerender"
              /\ stringify(history') = storage
       /\ MountRerender =>
              /\ phase' = "ready"
              /\ history' = history
              /\ storage' = stringify(history)]_vars

\* C28 witness: a list with an entry added by an earlier session of this
\* component has been loaded after a reload and is the item again.
C28_Witness ==
    /\ phase = "ready"
    /\ lastOp = "load"
    /\ started = 1
    /\ Len(history) = 3
    /\ storage = stringify(history)

\* C18: clearing leaves no entry in memory, and loading the item it leaves,
\* as a reload of the page does, gives no entry either.
C18_ClearSurvivesReload ==
    [][ClearAll =>
          /\ history' = <<>>
          /\ loadEffect(storage').set
          /\ loadEffect(storage').value = <<>>]_vars

\* C18 witness: a history with entries has been cleared.
C18_Witness ==
    /\ lastOp = "clear"
    /\ history = <<>>
    /\ storage = stringify(<<>>)
    /\ loadEffect(storage) = [set |-> TRUE, value |-> <<>>]

----------------------------------------------------------------------------
(* Claims about the settings and the reference image *)

\* the step ends the invocation in slot i with a new entry
Added(i) ==
    /\ calls[i].pc = "awaiting"
    /\ calls'[i].pc = "idle"
    /\ Len(history') = Len(history) + 1

\* C21: the entry made by a generation that succeeded records the settings
\* of its request, whatever the settings are when the answer comes: its
\* prompt, aspect ratio and model are those of the request sent, its
\* reference flag tells whether the settings passed to generateImage held a
\* reference image, and it has a size, the one sent, only for the
\* high-quality model.
C21_EntryRecordsSettings ==
    [][\A i \in 1..MaxCalls :
          (Added(i) /\ Len(net) = 1) =>
              LET entry == history'[1]
                  request == net[1]
                  pro == request.model = ProModel
              IN /\ entry.prompt = request.parts[Len(request.parts)].text
                 /\ entry.config.aspectRatio = request.config.aspectRatio
                 /\ entry.config.model = request.model
                 /\ entry.config.hasReferenceImage = Truthy(calls[i].settings.referenceImage)
                 /\ (entry.config.size # Undefined) <=> pro
                 /\ pro => entry.config.size = request.config.imageSize]_vars

\* C21 witness: the request was sent with a reference image, the fast model
\* and the 1:1 ratio; the image was cleared, and the model and the ratio
\* changed; the entry has the flag, the model and the ratio of the request,
\* and no size.
C21_Witness ==
    /\ lastOp = "append"
    /\ history[1].config.hasReferenceImage
    /\ history[1].config.aspectRatio = "1:1"
    /\ history[1].config.model = FlashModel
    /\ history[1].config.size = Undefined
    /\ settings.referenceImage = Undefined
    /\ settings.aspectRatio = "16:9"
    /\ settings.model = ProModel

\* C22 (as claimed): in every state of the settings the reference image and
\* its type are both there or both missing.
C22_BothOrNeither ==
    Truthy(settings.referenceImage) <=> Truthy(settings.mimeType)

\* the binary parts generateImage may compose a url of
ImageParts ==
    {part \in ResponseParts : part.inlineData} \cup {InlinePart("image/png", "CCCC")}

\* C29: "use as reference" on an entry whose url generateImage composed of
\* the type M and the payload X sets the reference image to X and its type to
\* M, and the request built of the settings then has (M, X) as its binary
\* part, before the prompt; on an entry whose url is no data URI it leaves
\* the settings as they are.
C29_ReferenceRoundTrip ==
    [][\A k \in 1..Len(history) :
          (lastOp' = "reference" /\ setAsReference(history[k].url)) =>
              LET url == history[k].url IN
              /\ \A part \in ImageParts :
                     url = dataUri(part.mimeType, part.data) =>
                         /\ settings'.referenceImage = part.data
                         /\ settings'.mimeType = part.mimeType
                         /\ buildRequest(settings').parts =
                                <<part, TextPart(settings'.prompt)>>
              /\ SubSeq(url, 1, 5) # "data:" => settings' = settings]_vars

\* C29 witness: the image of an entry was taken as reference and a request
\* made with it is under way: its binary part is the image of the entry.
C29_Witness ==
    /\ lastOp = "reference"
    /\ \E k \in 1..Len(history) : history[k].url = dataUri("image/png", "CCCC")
    /\ Len(net) = 1
    /\ net[1].parts = <<InlinePart("image/png", "CCCC"), TextPart("a cat")>>

====
